---- MODULE Spec2Model ----
(***************************************************************************)
(* Model of pump.py: the bridge that provisions one Lightelligence device  *)
(* per (sensor, modality) of a 30MHz Zensie organization (prepare) and     *)
(* then pumps the readings of each sensor to its devices over MQTT (pump,  *)
(* Handler).  One run of the process is modelled from main() to its exit.  *)
(***************************************************************************)
EXTENDS Integers, Sequences, FiniteSets, TLC

(***************************************************************************)
(* Values of the environment the process runs in.                          *)
(***************************************************************************)
\* Python's None, as a dictionary key and as a value
PyNone == "<None>"

EnvNames == {"LIGHTELLIGENCE_TOKEN", "ZENSIE_API_KEY", "ZENSIE_ORGANIZATION"}

\* the sensors the Zensie organization holds, in the order the API lists them
Inventory ==
    << [checkId |-> "s1", name |-> "greenhouse", sensorType |-> "climate"],
       [checkId |-> "g1", name |-> "uplink",     sensorType |-> "gateway_info"],
       [checkId |-> "s2", name |-> "probe",      sensorType |-> "soil"] >>

\* what a sensor type's catalog entry may hold under 'jsonKeys':
\* no such key, null, or a list of modality keys
KeyLists == { <<>>, <<"temperature">>, <<"temperature", "humidity">> }
JsonKeysOf(x) == [kind |-> "list", keys |-> x]
JsonKeysNull == [kind |-> "null", keys |-> <<>>]
JsonKeysAbsent == [kind |-> "absent", keys |-> <<>>]
ClimateKeys == {JsonKeysOf(x) : x \in KeyLists}
SoilKeys == {JsonKeysNull, JsonKeysAbsent, JsonKeysOf(<<>>)}

\* outcome of one HTTP exchange: 0 is "no response" (the network failed),
\* any other number is the status code of the response
Outcomes == {0, 200, 201, 204, 404, 503}

EmptyDict == [x \in {} |-> {}]

(***************************************************************************)
(* api_call: what the caller sees of one HTTP exchange.  urlopen raises    *)
(* URLError when there is no response and HTTPError for a status outside   *)
(* 2xx; api_call itself raises Exception for a status outside 200..201.    *)
(***************************************************************************)
api_call(outcome) ==
    IF outcome = 0 THEN "URLError"
    ELSE IF outcome \notin 200..299 THEN "HTTPError"
    ELSE IF outcome \notin 200..201 THEN "Exception"
    ELSE "ok"

(***************************************************************************)
(* The mapping file holds a JSON document.  json.dumps turns a None key    *)
(* into the string "null"; every other key of this program is a string     *)
(* and is kept.  json.loads gives back the document's string keys.         *)
(***************************************************************************)
JsonKey(k) == IF k = PyNone THEN "null" ELSE k

JsonObject(d) ==
    [j \in {JsonKey(k) : k \in DOMAIN d} |->
        d[CHOOSE k \in DOMAIN d : JsonKey(k) = j]]

json_dumps(mappings) == [s \in DOMAIN mappings |-> JsonObject(mappings[s])]

json_loads(doc) == doc

\* a file is missing, empty, or holds a document
FileMissing == [state |-> "missing", doc |-> EmptyDict]
FileEmpty == [state |-> "empty", doc |-> EmptyDict]
FileOf(doc) == [state |-> "json", doc |-> doc]

\* load_pump_mappings: the exception it raises, None, or the decoded document
load_pump_mappings(file) ==
    IF file.state = "missing" THEN [raised |-> "FileNotFoundError", value |-> EmptyDict, none |-> FALSE]
    ELSE IF file.state = "empty" THEN [raised |-> "none", value |-> EmptyDict, none |-> TRUE]
    ELSE [raised |-> "none", value |-> json_loads(file.doc), none |-> FALSE]

store_pump_mappings(mappings) == FileOf(json_dumps(mappings))

(***************************************************************************)
(* Credentials: a key is a positive number, 0 is "no such file"; a         *)
(* certificate names the key it was made for.                              *)
(***************************************************************************)
NoCert == [serial |-> 0, forKey |-> 0]


\* the n-th key pair and the certificate made for it
Entry(n) == [id |-> n, certificate |-> [serial |-> n, forKey |-> n], key |-> n]

(***************************************************************************)
(* State.                                                                  *)
(***************************************************************************)
VARIABLES
    env,            \* which environment variables are set
    catalog,        \* Zensie: sensor type -> its 'jsonKeys'
    mappingFile,    \* /mapping.json
    keyFile,        \* device_key.pem
    certFile,       \* device_cert.pem
    keysIssued,     \* key pairs openssl has generated so far
    certsIssued,    \* certificates openssl has generated so far
    oltDevices,     \* Lightelligence: the devices created, device id = index
    deviceTypes,    \* Lightelligence: number of device types registered
    pc,             \* position of the main thread
    error,          \* the exception that ended the main thread, or "none"
    device_type_id, \* prepare: id of the registered device type
    sensors,        \* prepare: the listed sensors
    si,             \* prepare: index of the sensor being provisioned
    modalities,     \* prepare: modalities of that sensor still to provision
    mappings,       \* prepare: the mapping being built; pump: the loaded one
    handlers,       \* pump: (sensor, modality) -> the Handler thread of the entry
    credFiles,      \* pump: device id -> the credential files a Handler wrote
    timestamps,     \* pump: the last-seen timestamp table
    cur,            \* pump: index of the sensor being polled
    reply,          \* pump: the snapshot being processed
    pending,        \* pump: modalities of the snapshot still to report
    calls,          \* history: the report calls made for the current poll
    prevTs,         \* history: timestamp of each sensor's last successful poll
    lastPoll,       \* history: the poll the pump loop made last
    apiCalled,      \* history: an HTTP request has been sent in this run
    failedCall,     \* history: the HTTP request that failed, or "none"
    fileAtStart     \* history: /mapping.json when the process started

envVars == <<env, catalog>>
cryptoVars == <<keyFile, certFile, keysIssued, certsIssued>>
cloudVars == <<oltDevices, deviceTypes>>
prepareVars == <<device_type_id, sensors, si, modalities>>
pumpVars == <<handlers, credFiles, timestamps, cur, reply, pending, calls, prevTs,
              lastPoll>>
vars == <<env, catalog, mappingFile, keyFile, certFile, keysIssued, certsIssued,
          oltDevices, deviceTypes, pc, error, device_type_id, sensors, si,
          modalities, mappings, handlers, credFiles, timestamps, cur, reply,
          pending, calls, prevTs, lastPoll, apiCalled, failedCall, fileAtStart>>

(***************************************************************************)
(* JSON values of a snapshot: a number, or a string.                       *)
(***************************************************************************)
Num(n) == [type |-> "number", n |-> n, s |-> ""]
Str(s) == [type |-> "string", n |-> 0, s |-> s]

\* 'lastRecordedStats': an object keyed by modality, or a single scalar
StatsObject(d) == [isDict |-> TRUE, dict |-> d, scalar |-> Num(0)]
StatsScalar(v) == [isDict |-> FALSE, dict |-> EmptyDict, scalar |-> v]

StatsChoices ==
    { StatsScalar(Num(5)),
      StatsObject([m \in {"temperature", "humidity"} |->
                      IF m = "temperature" THEN Num(21) ELSE Num(40)]),
      StatsObject([m \in {"temperature", "pressure"} |->
                      IF m = "temperature" THEN Str("7") ELSE Num(3)]),
      StatsObject([m \in {"humidity"} |-> Str("abc")]) }

Timestamps == {"", "t0", "t1"}

Replies == [timestamp : Timestamps, lastRecordedStats : StatsChoices]

NoReply == [timestamp |-> "", lastRecordedStats |-> StatsScalar(Num(0))]

NoPoll == [sensor |-> "", result |-> "none", first |-> FALSE, prev |-> "",
           timestamp |-> "", stats |-> NoReply.lastRecordedStats]

(***************************************************************************)
(* The mapping and the devices a complete provisioning run leaves for the  *)
(* catalog climate -> [temperature, humidity], soil -> null: the world a   *)
(* later run of the process starts in.                                     *)
(***************************************************************************)
DeviceName(sensor, modality) ==
    <<sensor.name, sensor.checkId, IF modality = PyNone THEN "None" ELSE modality>>

ProvisionedMappings ==
    [s \in {"s1", "s2"} |->
        IF s = "s1"
        THEN [m \in {"temperature", "humidity"} |->
                 IF m = "temperature" THEN Entry(1) ELSE Entry(2)]
        ELSE [m \in {PyNone} |-> Entry(3)]]

ProvisionedDevices ==
    << [name |-> DeviceName(Inventory[1], "temperature"), deviceTypeId |-> 1,
        cert |-> Entry(1).certificate],
       [name |-> DeviceName(Inventory[1], "humidity"), deviceTypeId |-> 1,
        cert |-> Entry(2).certificate],
       [name |-> DeviceName(Inventory[3], PyNone), deviceTypeId |-> 1,
        cert |-> Entry(3).certificate] >>

Catalogs ==
    {[t \in {"climate", "soil", "gateway_info"} |->
        IF t = "climate" THEN c ELSE IF t = "soil" THEN s ELSE JsonKeysNull]
     : c \in ClimateKeys, s \in SoilKeys}

InitLocals ==
    /\ pc = "main"
    /\ error = "none"
    /\ device_type_id = 0
    /\ sensors = <<>>
    /\ si = 0
    /\ modalities = <<>>
    /\ mappings = EmptyDict
    /\ handlers = EmptyDict
    /\ credFiles = EmptyDict
    /\ timestamps = EmptyDict
    /\ cur = 0
    /\ reply = NoReply
    /\ pending = {}
    /\ calls = <<>>
    /\ prevTs = EmptyDict
    /\ lastPoll = NoPoll
    /\ apiCalled = FALSE
    /\ failedCall = "none"

\* the process is started for the first time: nothing is provisioned
InitFresh ==
    /\ mappingFile \in {FileMissing, FileEmpty}
    /\ keyFile = 0
    /\ certFile = NoCert
    /\ keysIssued = 0
    /\ certsIssued = 0
    /\ oltDevices = <<>>
    /\ deviceTypes = 0

\* the process is started after a provisioning run (ProvisionedWorldReached):
\* the catalog and the token are those of that run
InitProvisioned ==
    /\ mappingFile = store_pump_mappings(ProvisionedMappings)
    /\ keyFile = 3
    /\ certFile = Entry(3).certificate
    /\ keysIssued = 3
    /\ certsIssued = 3
    /\ oltDevices = ProvisionedDevices
    /\ deviceTypes = 1
    /\ catalog["climate"] = JsonKeysOf(<<"temperature", "humidity">>)
    /\ catalog["soil"] = JsonKeysNull
    /\ env["LIGHTELLIGENCE_TOKEN"]

Init ==
    /\ env \in [EnvNames -> BOOLEAN]
    /\ catalog \in Catalogs
    /\ InitFresh \/ InitProvisioned
    /\ fileAtStart = mappingFile
    /\ InitLocals

\* an exception nothing catches ends the main thread, and the process with it
Raise(e) ==
    /\ pc' = "crashed"
    /\ error' = e

\* api_call raises for the request named call
Fails(call, e) ==
    /\ Raise(e)
    /\ failedCall' = call

(***************************************************************************)
(* main                                                                    *)
(***************************************************************************)
\* load_pump_mappings raises: /mapping.json does not exist
main_missing ==
    /\ pc = "main"
    /\ load_pump_mappings(mappingFile).raised # "none"
    /\ Raise(load_pump_mappings(mappingFile).raised)
    /\ UNCHANGED <<envVars, mappingFile, cryptoVars, cloudVars, prepareVars,
                   mappings, pumpVars, apiCalled, fileAtStart, failedCall>>

\* mappings is None: prepare(logger)
main_prepare ==
    /\ pc = "main"
    /\ load_pump_mappings(mappingFile).raised = "none"
    /\ load_pump_mappings(mappingFile).none
    /\ pc' = "prepare"
    /\ UNCHANGED <<envVars, mappingFile, cryptoVars, cloudVars, prepareVars,
                   mappings, pumpVars, apiCalled, fileAtStart, failedCall, error>>

\* otherwise: pump(logger, mappings)
main_pump ==
    /\ pc = "main"
    /\ load_pump_mappings(mappingFile).raised = "none"
    /\ ~load_pump_mappings(mappingFile).none
    /\ mappings' = load_pump_mappings(mappingFile).value
    /\ pc' = "pump"
    /\ UNCHANGED <<envVars, mappingFile, cryptoVars, cloudVars, prepareVars,
                   pumpVars, apiCalled, fileAtStart, failedCall, error>>

(***************************************************************************)
(* prepare                                                                 *)
(***************************************************************************)
olt_check(e) == IF e["LIGHTELLIGENCE_TOKEN"] THEN "ok" ELSE "Exception"

\* mutant: the flag skips both checks
zensie_check_skip_both(e, skip_organization) ==
    IF skip_organization THEN "ok"
    ELSE IF ~e["ZENSIE_API_KEY"] \/ ~e["ZENSIE_ORGANIZATION"] THEN "Exception"
    ELSE "ok"

zensie_check(e, skip_organization) ==
    IF ~e["ZENSIE_API_KEY"] THEN "Exception"
    ELSE IF ~e["ZENSIE_ORGANIZATION"] /\ ~skip_organization THEN "Exception"
    ELSE "ok"

banned == {"gateway_info", "zensie_router"}

NotBanned(sensor) == sensor.sensorType \notin banned

\* mutant: the listing is not filtered
zensie_list_sensors_unfiltered(result) == result

zensie_list_sensors(result) == SelectSeq(result, NotBanned)

\* lines 174-176: both credential checks
prepare_check ==
    /\ pc = "prepare"
    /\ IF olt_check(env) # "ok" THEN Raise(olt_check(env))
       ELSE IF zensie_check(env, FALSE) # "ok" THEN Raise(zensie_check(env, FALSE))
       ELSE pc' = "create_device_type" /\ UNCHANGED error
    /\ UNCHANGED <<envVars, mappingFile, cryptoVars, cloudVars, prepareVars,
                   mappings, pumpVars, apiCalled, fileAtStart, failedCall>>

\* line 177: olt_create_device_type
prepare_create_device_type ==
    /\ pc = "create_device_type"
    /\ apiCalled' = TRUE
    /\ \E outcome \in Outcomes :
          IF api_call(outcome) = "ok"
          THEN /\ deviceTypes' = deviceTypes + 1
               /\ device_type_id' = deviceTypes + 1
               /\ pc' = "list_sensors"
               /\ UNCHANGED <<error, failedCall>>
          ELSE /\ Fails("device-types", api_call(outcome))
               /\ UNCHANGED <<deviceTypes, device_type_id>>
    /\ UNCHANGED <<envVars, mappingFile, cryptoVars, oltDevices, sensors, si,
                   modalities, mappings, pumpVars, fileAtStart>>

\* line 178: zensie_list_sensors
prepare_list_sensors ==
    /\ pc = "list_sensors"
    /\ apiCalled' = TRUE
    /\ \E outcome \in Outcomes :
          IF api_call(outcome) = "ok"
          THEN /\ sensors' = zensie_list_sensors(Inventory)
               /\ pc' = "list_sensor_types"
               /\ UNCHANGED <<error, failedCall>>
          ELSE /\ Fails("organization", api_call(outcome))
               /\ UNCHANGED sensors
    /\ UNCHANGED <<envVars, mappingFile, cryptoVars, cloudVars, device_type_id,
                   si, modalities, mappings, pumpVars, fileAtStart>>

\* lines 179-180: zensie_list_sensor_types (the result is the catalog), mappings = {}
prepare_list_sensor_types ==
    /\ pc = "list_sensor_types"
    /\ apiCalled' = TRUE
    /\ \E outcome \in Outcomes :
          IF api_call(outcome) = "ok"
          THEN /\ mappings' = EmptyDict
               /\ si' = 1
               /\ pc' = "sensor"
               /\ UNCHANGED <<error, failedCall>>
          ELSE /\ Fails("sensor-type", api_call(outcome))
               /\ UNCHANGED <<mappings, si>>
    /\ UNCHANGED <<envVars, mappingFile, cryptoVars, cloudVars, device_type_id,
                   sensors, modalities, pumpVars, fileAtStart>>

DictSet(d, k, v) == [x \in DOMAIN d \cup {k} |-> IF x = k THEN v ELSE d[x]]

\* lines 181-185: the next sensor of the outer loop, or the end of the loop
prepare_sensor ==
    /\ pc = "sensor"
    /\ IF si > Len(sensors)
       THEN /\ pc' = "store"
            /\ UNCHANGED <<mappings, modalities, error>>
       ELSE LET sensor == sensors[si]
                jsonKeys == catalog[sensor.sensorType]
            IN /\ mappings' = DictSet(mappings, sensor.checkId, EmptyDict)
               /\ IF jsonKeys.kind = "absent"
                  THEN Raise("KeyError") /\ UNCHANGED modalities
                  ELSE /\ modalities' = IF jsonKeys.kind = "null" THEN <<PyNone>>
                                        ELSE jsonKeys.keys
                       /\ pc' = "device"
                       /\ UNCHANGED error
    /\ UNCHANGED <<envVars, mappingFile, cryptoVars, cloudVars, device_type_id,
                   sensors, si, pumpVars, apiCalled, fileAtStart, failedCall>>

(***************************************************************************)
(* device_certificate: two openssl runs whose exit status is not looked    *)
(* at, then both files are read.  A run that fails leaves its output file  *)
(* as it was; the second run needs the key file.                           *)
(***************************************************************************)
device_certificate(key_ok, cert_ok) ==
    LET key1 == IF key_ok THEN keysIssued + 1 ELSE keyFile
        cert1 == IF cert_ok /\ key1 # 0
                 THEN [serial |-> certsIssued + 1, forKey |-> key1]
                 ELSE certFile
    IN [keyFile |-> key1,
        certFile |-> cert1,
        keysIssued |-> IF key_ok THEN keysIssued + 1 ELSE keysIssued,
        certsIssued |-> IF cert1 # certFile THEN certsIssued + 1 ELSE certsIssued,
        raised |-> IF cert1 = NoCert \/ key1 = 0 THEN "FileNotFoundError" ELSE "none",
        certificate |-> cert1,
        key |-> key1]

(***************************************************************************)
(* olt_create_device: POST /devices, then POST /devices/<id>/certificates.  *)
(* The device the first request created stays when the second one fails.   *)
(***************************************************************************)
\* mutant: the device is deleted again when its certificate is refused
olt_create_device_rollback(devices, type_id, name, certificate, created, attached) ==
    LET device == [name |-> name, deviceTypeId |-> type_id, cert |-> NoCert]
    IN IF api_call(created) # "ok"
       THEN [raised |-> api_call(created), failed |-> "devices",
             devices |-> devices, device_id |-> 0]
       ELSE IF api_call(attached) # "ok"
       THEN [raised |-> api_call(attached), failed |-> "certificates",
             devices |-> devices, device_id |-> 0]
       ELSE [raised |-> "none", failed |-> "none",
             devices |-> Append(devices, [device EXCEPT !.cert = certificate]),
             device_id |-> Len(devices) + 1]

olt_create_device(devices, type_id, name, certificate, created, attached) ==
    LET device == [name |-> name, deviceTypeId |-> type_id, cert |-> NoCert]
        device_id == Len(devices) + 1
    IN IF api_call(created) # "ok"
       THEN [raised |-> api_call(created), failed |-> "devices",
             devices |-> devices, device_id |-> 0]
       ELSE IF api_call(attached) # "ok"
       THEN [raised |-> api_call(attached), failed |-> "certificates",
             devices |-> Append(devices, device), device_id |-> 0]
       ELSE [raised |-> "none", failed |-> "none",
             devices |-> Append(devices, [device EXCEPT !.cert = certificate]),
             device_id |-> device_id]

\* lines 186-194: one pass of the inner loop, or its end
prepare_device ==
    /\ pc = "device"
    /\ IF modalities = <<>>
       THEN /\ si' = si + 1
            /\ pc' = "sensor"
            /\ UNCHANGED <<cryptoVars, oltDevices, mappings, modalities, error,
                           apiCalled, failedCall>>
       ELSE \E key_ok, cert_ok \in BOOLEAN, created, attached \in Outcomes :
            LET sensor == sensors[si]
                zensie_sensor == sensor.checkId
                modality == Head(modalities)
                mapping == device_certificate(key_ok, cert_ok)
                result == olt_create_device(oltDevices, device_type_id,
                              DeviceName(sensor, modality), mapping.certificate,
                              created, attached)
            IN /\ keyFile' = mapping.keyFile
               /\ certFile' = mapping.certFile
               /\ keysIssued' = mapping.keysIssued
               /\ certsIssued' = mapping.certsIssued
               /\ UNCHANGED si
               /\ IF mapping.raised # "none"
                  THEN /\ Raise(mapping.raised)
                       /\ UNCHANGED <<oltDevices, mappings, modalities, apiCalled,
                                      failedCall>>
                  ELSE /\ apiCalled' = TRUE
                       /\ oltDevices' = result.devices
                       /\ IF result.raised # "none"
                          THEN /\ Fails(result.failed, result.raised)
                               /\ UNCHANGED <<mappings, modalities>>
                          ELSE /\ mappings' = DictSet(mappings, zensie_sensor,
                                      DictSet(mappings[zensie_sensor], modality,
                                          [certificate |-> mapping.certificate,
                                           key |-> mapping.key,
                                           id |-> result.device_id]))
                               /\ modalities' = Tail(modalities)
                               /\ UNCHANGED <<pc, error, failedCall>>
    /\ UNCHANGED <<envVars, mappingFile, deviceTypes, device_type_id, sensors,
                   pumpVars, fileAtStart>>

\* line 195: store_pump_mappings
prepare_store ==
    /\ pc = "store"
    /\ mappingFile' = store_pump_mappings(mappings)
    /\ pc' = "done"
    /\ UNCHANGED <<envVars, cryptoVars, cloudVars, prepareVars, mappings,
                   pumpVars, apiCalled, fileAtStart, failedCall, error>>

prepare ==
    \/ prepare_check
    \/ prepare_create_device_type
    \/ prepare_list_sensors
    \/ prepare_list_sensor_types
    \/ prepare_sensor
    \/ prepare_device
    \/ prepare_store

(***************************************************************************)
(* Handler                                                                 *)
(***************************************************************************)
\* the order in which a dictionary of the loaded document is iterated:
\* the order of the document, which is the order prepare inserted in
SensorOrder == [i \in 1..Len(Inventory) |-> Inventory[i].checkId]
KeyOrder == <<"temperature", "humidity", "null", PyNone>>

Keys(d) == LET Has(k) == k \in DOMAIN d IN SelectSeq(SensorOrder, Has)

\* mutant: one Handler per sensor, made for the first of its entries
EntryOrder_per_sensor ==
    LET all == [i \in 1..(Len(SensorOrder) * Len(KeyOrder)) |->
                   << SensorOrder[((i - 1) \div Len(KeyOrder)) + 1],
                      KeyOrder[((i - 1) % Len(KeyOrder)) + 1] >>]
        Pos(k) == CHOOSE i \in 1..Len(KeyOrder) : KeyOrder[i] = k
        Has(p) == /\ p[1] \in DOMAIN mappings /\ p[2] \in DOMAIN mappings[p[1]]
                  /\ \A k \in DOMAIN mappings[p[1]] : Pos(p[2]) <= Pos(k)
    IN SelectSeq(all, Has)

EntryOrder ==
    LET all == [i \in 1..(Len(SensorOrder) * Len(KeyOrder)) |->
                   << SensorOrder[((i - 1) \div Len(KeyOrder)) + 1],
                      KeyOrder[((i - 1) % Len(KeyOrder)) + 1] >>]
        Has(p) == p[1] \in DOMAIN mappings /\ p[2] \in DOMAIN mappings[p[1]]
    IN SelectSeq(all, Has)

Alive == pc \in {"handlers", "poll", "report"}

\* Handler.__init__: the credential files are written, the thread is started
HandlerInit(mapping) ==
    [identifier |-> mapping.id, state |-> "top", mqtt_client |-> "None"]

\* lines 239-241: a new Client (named after the time of the attempt) replaces
\* the one before
handler_new_client(h) ==
    /\ Alive
    /\ handlers[h].state = "top"
    /\ handlers' = [handlers EXCEPT ![h].mqtt_client = "Client",
                                    ![h].state = "connect"]
    /\ UNCHANGED <<envVars, mappingFile, cryptoVars, cloudVars, prepareVars,
                   mappings, credFiles, timestamps, cur, reply, pending, calls,
                   prevTs, lastPoll, apiCalled, fileAtStart, failedCall, pc, error>>

\* lines 242-247: tls_set and connect; an exception of either ends run()
handler_connect(h) ==
    /\ Alive
    /\ handlers[h].state = "connect"
    /\ \E connected \in BOOLEAN :
          handlers' = [handlers EXCEPT
                          ![h].state = IF connected THEN "loop" ELSE "dead"]
    /\ UNCHANGED <<envVars, mappingFile, cryptoVars, cloudVars, prepareVars,
                   mappings, credFiles, timestamps, cur, reply, pending, calls,
                   prevTs, lastPoll, apiCalled, fileAtStart, failedCall, pc, error>>

\* line 248: loop_forever returns, the connection is gone
handler_loop_returns(h) ==
    /\ Alive
    /\ handlers[h].state = "loop"
    /\ handlers' = [handlers EXCEPT ![h].state = "top"]
    /\ UNCHANGED <<envVars, mappingFile, cryptoVars, cloudVars, prepareVars,
                   mappings, credFiles, timestamps, cur, reply, pending, calls,
                   prevTs, lastPoll, apiCalled, fileAtStart, failedCall, pc, error>>

Handler_run ==
    \E h \in DOMAIN handlers :
        \/ handler_new_client(h)
        \/ handler_connect(h)
        \/ handler_loop_returns(h)

\* Handler.report: publish on self.mqtt_client.  None has no publish; a
\* client that is not connected takes the message and never sends it
Handler_report(handler) ==
    IF handler.mqtt_client = "None" THEN "AttributeError"
    ELSE IF handler.state = "loop" THEN "queued"
    ELSE "dropped"

(***************************************************************************)
(* pump                                                                    *)
(***************************************************************************)
\* float(): a number, a string that spells a number, or ValueError
float(v) ==
    IF v.type = "number" THEN [raised |-> "none", value |-> v.n]
    ELSE IF v.s = "7" THEN [raised |-> "none", value |-> 7]
    ELSE [raised |-> "ValueError", value |-> 0]

\* dict.get(key, default)
Get(d, k, default) == IF k \in DOMAIN d THEN d[k] ELSE default

\* line 280
Stats(r) ==
    IF r.lastRecordedStats.isDict THEN r.lastRecordedStats.dict
    ELSE [k \in {PyNone} |-> r.lastRecordedStats.scalar]

\* mutant: every snapshot counts as new
Changed_always(table, zensie_sensor, r) == TRUE

\* line 278
Changed(table, zensie_sensor, r) == Get(table, zensie_sensor, "") # r.timestamp

\* lines 281-283: reported.intersection(expected)
Expected(r, entries) == DOMAIN Stats(r) \cap DOMAIN entries

\* line 266
pump_check ==
    /\ pc = "pump"
    /\ IF zensie_check(env, TRUE) # "ok" THEN Raise(zensie_check(env, TRUE))
       ELSE pc' = "handlers" /\ UNCHANGED error
    /\ UNCHANGED <<envVars, mappingFile, cryptoVars, cloudVars, prepareVars,
                   mappings, pumpVars, apiCalled, fileAtStart, failedCall>>

\* mutant: making the Handler takes certificate and key out of the entry
pump_handlers_pop ==
    /\ pc = "handlers"
    /\ LET todo == LET New(p) == p \notin DOMAIN handlers
                   IN SelectSeq(EntryOrder, New)
       IN IF todo = <<>>
          THEN /\ timestamps' = EmptyDict
               /\ cur' = 1
               /\ pc' = "poll"
               /\ UNCHANGED <<handlers, credFiles, mappings>>
          ELSE LET p == Head(todo)
                   mapping == mappings[p[1]][p[2]]
               IN /\ credFiles' = DictSet(credFiles, mapping.id,
                         [certificate |-> mapping.certificate, key |-> mapping.key])
                  /\ handlers' = DictSet(handlers, p, HandlerInit(mapping))
                  /\ mappings' = [mappings EXCEPT ![p[1]][p[2]] =
                         [id |-> mapping.id, certificate |-> NoCert, key |-> 0]]
                  /\ UNCHANGED <<timestamps, cur, pc>>
    /\ UNCHANGED <<envVars, mappingFile, cryptoVars, cloudVars, prepareVars,
                   reply, pending, calls, prevTs, lastPoll, apiCalled,
                   fileAtStart, failedCall, error>>

\* lines 267-271: the next Handler of the two loops, or timestamps = {}
pump_handlers ==
    /\ pc = "handlers"
    /\ LET todo == LET New(p) == p \notin DOMAIN handlers
                   IN SelectSeq(EntryOrder, New)
       IN IF todo = <<>>
          THEN /\ timestamps' = EmptyDict
               /\ cur' = 1
               /\ pc' = "poll"
               /\ UNCHANGED <<handlers, credFiles>>
          ELSE LET p == Head(todo)
                   mapping == mappings[p[1]][p[2]]
               IN /\ credFiles' = DictSet(credFiles, mapping.id,
                         [certificate |-> mapping.certificate, key |-> mapping.key])
                  /\ handlers' = DictSet(handlers, p, HandlerInit(mapping))
                  /\ UNCHANGED <<timestamps, cur, pc>>
    /\ UNCHANGED <<envVars, mappingFile, cryptoVars, cloudVars, prepareVars,
                   mappings, reply, pending, calls, prevTs, lastPoll, apiCalled,
                   fileAtStart, failedCall, error>>

\* lines 273-282: one sensor is polled
pump_poll ==
    /\ pc = "poll"
    /\ cur <= Len(Keys(mappings))
    /\ apiCalled' = TRUE
    /\ UNCHANGED calls
    /\ LET zensie_sensor == Keys(mappings)[cur]
       IN \E outcome \in Outcomes :
          IF api_call(outcome) = "HTTPError"
          THEN /\ cur' = cur + 1
               /\ failedCall' = "stats"
               /\ lastPoll' = [NoPoll EXCEPT !.sensor = zensie_sensor,
                                              !.result = "HTTPError"]
               /\ UNCHANGED <<reply, pending, prevTs, pc, error>>
          ELSE IF api_call(outcome) # "ok"
          THEN /\ Fails("stats", api_call(outcome))
               /\ lastPoll' = [NoPoll EXCEPT !.sensor = zensie_sensor,
                                              !.result = api_call(outcome)]
               /\ UNCHANGED <<reply, pending, prevTs, cur>>
          ELSE \E r \in Replies :
               /\ lastPoll' = [sensor |-> zensie_sensor, result |-> "ok",
                               first |-> zensie_sensor \notin DOMAIN prevTs,
                               prev |-> Get(prevTs, zensie_sensor, ""),
                               timestamp |-> r.timestamp,
                               stats |-> r.lastRecordedStats]
               /\ prevTs' = DictSet(prevTs, zensie_sensor, r.timestamp)
               /\ failedCall' = "none"
               /\ UNCHANGED error
               /\ IF Changed(timestamps, zensie_sensor, r)
                  THEN /\ reply' = r
                       /\ pending' = Expected(r, mappings[zensie_sensor])
                       /\ pc' = "report"
                       /\ UNCHANGED cur
                  ELSE /\ cur' = cur + 1
                       /\ UNCHANGED <<reply, pending, pc>>
    /\ UNCHANGED <<envVars, mappingFile, cryptoVars, cloudVars, prepareVars,
                   mappings, handlers, credFiles, timestamps, fileAtStart>>

\* lines 283-289: one modality of the snapshot is reported
pump_report ==
    /\ pc = "report"
    /\ \E modality \in pending :
          LET zensie_sensor == Keys(mappings)[cur]
              handler == handlers[<<zensie_sensor, modality>>]
              value == float(Stats(reply)[modality])
              call == [handler |-> handler.identifier, sensor |-> zensie_sensor,
                       modality |-> modality, value |-> value.value]
          IN IF value.raised # "none"
             THEN Raise(value.raised) /\ UNCHANGED <<calls, pending>>
             ELSE /\ calls' = Append(calls, call)
                  /\ IF Handler_report(handler) = "AttributeError"
                     THEN Raise("AttributeError") /\ UNCHANGED pending
                     ELSE /\ pending' = pending \ {modality}
                          /\ UNCHANGED <<pc, error>>
    /\ UNCHANGED <<envVars, mappingFile, cryptoVars, cloudVars, prepareVars,
                   mappings, handlers, credFiles, timestamps, cur, reply, prevTs,
                   lastPoll, apiCalled, fileAtStart, failedCall>>

\* line 290: the sensor's timestamp is recorded.  reply is not read again
\* before the next poll assigns it
pump_finish ==
    /\ pc = "report"
    /\ pending = {}
    /\ timestamps' = DictSet(timestamps, Keys(mappings)[cur], reply.timestamp)
    /\ cur' = cur + 1
    /\ pc' = "poll"
    /\ reply' = NoReply
    /\ calls' = <<>>
    /\ UNCHANGED <<envVars, mappingFile, cryptoVars, cloudVars, prepareVars,
                   mappings, handlers, credFiles, pending, prevTs,
                   lastPoll, apiCalled, fileAtStart, failedCall, error>>

\* line 291: every sensor was polled; sleep, then the next cycle
pump_sleep ==
    /\ pc = "poll"
    /\ cur > Len(Keys(mappings))
    /\ cur' = 1
    /\ UNCHANGED <<envVars, mappingFile, cryptoVars, cloudVars, prepareVars,
                   mappings, handlers, credFiles, timestamps, reply, pending,
                   calls, prevTs, lastPoll, apiCalled, fileAtStart, failedCall, pc, error>>

pump ==
    \/ pump_check
    \/ pump_handlers
    \/ pump_poll
    \/ pump_report
    \/ pump_finish
    \/ pump_sleep

Next ==
    \/ main_missing
    \/ main_prepare
    \/ main_pump
    \/ prepare
    \/ pump
    \/ Handler_run

Spec == Init /\ [][Next]_vars

(***************************************************************************)
(* Properties.                                                             *)
(***************************************************************************)
\* the world a later run starts in is one a provisioning run leaves
ProvisionedWorldReached ==
    /\ pc = "done"
    /\ mappingFile = store_pump_mappings(ProvisionedMappings)
    /\ oltDevices = ProvisionedDevices
    /\ keyFile = 3 /\ certFile = Entry(3).certificate

\* a step of pump_poll
PollStep ==
    /\ pc = "poll"
    /\ cur <= Len(Keys(mappings))
    /\ pc' # pc \/ cur' # cur

ProvisioningMode == fileAtStart.state = "empty" /\ pc # "main"
PumpMode == fileAtStart.state = "json" /\ pc # "main"

\* the processing of the polled snapshot is over: every modality was handled,
\* or an exception ended it
ProcessingOver ==
    \/ pc = "report" /\ pending = {}
    \/ pc = "crashed" /\ lastPoll.result = "ok"

Coercible(r, entries) ==
    \A m \in Expected(r, entries) : float(Stats(r)[m]).raised = "none"

\* the snapshot the last poll returned, and its modalities that are mapped
LastSnapshot ==
    [timestamp |-> lastPoll.timestamp, lastRecordedStats |-> lastPoll.stats]

LastExpected == Expected(LastSnapshot, mappings[lastPoll.sensor])

LastCoercible == Coercible(LastSnapshot, mappings[lastPoll.sensor])

\* the report calls of the current poll that went to the handler of (s, m)
CallsTo(s, m) ==
    {i \in 1..Len(calls) : /\ calls[i].sensor = s
                           /\ calls[i].modality = m
                           /\ calls[i].handler = handlers[<<s, m>>].identifier}

(***************************************************************************)
(* C1  Dedup: whenever report has been called for the poll in progress,    *)
(* that poll succeeded, its timestamp differs from the value the last-seen *)
(* table holds for the sensor, and it is not a repeat of the timestamp of  *)
(* the sensor's previous successful poll.  So a poll whose timestamp       *)
(* equals the held value leads to no report, and K polls with one          *)
(* timestamp give no report for the K-1 repeats.                           *)
(***************************************************************************)
C1_Dedup ==
    (pc = "report" \/ calls # <<>>) =>
        /\ lastPoll.result = "ok"
        /\ \A i \in 1..Len(calls) : calls[i].sensor = lastPoll.sensor
        /\ ~(/\ lastPoll.sensor \in DOMAIN timestamps
             /\ timestamps[lastPoll.sensor] = lastPoll.timestamp)
        /\ lastPoll.first \/ lastPoll.prev # lastPoll.timestamp

\* s1 was polled again with the timestamp t0 it had before; the snapshot held
\* both mapped modalities, and nothing was reported
C1_Witness ==
    /\ pc = "poll"
    /\ lastPoll.sensor = "s1" /\ lastPoll.result = "ok"
    /\ LastExpected = {"temperature", "humidity"}
    /\ ~lastPoll.first
    /\ lastPoll.prev = "t0" /\ lastPoll.timestamp = "t0"
    /\ timestamps["s1"] = "t0"
    /\ calls = <<>>

(***************************************************************************)
(* C2  Report on change: a successful poll whose snapshot holds a mapped   *)
(* modality is followed by reports exactly when it is the sensor's first   *)
(* successful poll or its timestamp differs from that of the sensor's      *)
(* previous successful poll; and when the processing of such a poll is     *)
(* over, every mapped modality of the snapshot has got a report, with the  *)
(* snapshot's value.  Stated for snapshots whose mapped values are all     *)
(* numbers.                                                                *)
(***************************************************************************)
C2_ReportOnChange ==
    /\ [][ (PollStep /\ lastPoll'.result = "ok" /\ LastExpected' # {}
                /\ LastCoercible') =>
              ((lastPoll'.first \/ lastPoll'.prev # lastPoll'.timestamp)
                  <=> (pc' = "report" /\ pending' = LastExpected')) ]_vars
    /\ [](ProcessingOver /\ LastCoercible =>
            \A m \in LastExpected :
                \E i \in CallsTo(lastPoll.sensor, m) :
                    calls[i].value = float(Stats(LastSnapshot)[m]).value)

(***************************************************************************)
(* C3  Fan-out: when the processing of a snapshot with a changed timestamp *)
(* is over, report has been called once for each modality that is a key of *)
(* both the snapshot and the sensor's mapping entries, on that modality's  *)
(* handler and with its value as a number, and for nothing else.  Stated   *)
(* for snapshots whose mapped values are all numbers.                      *)
(***************************************************************************)
C3_FanOut ==
    (ProcessingOver /\ LastCoercible) =>
        /\ \A m \in LastExpected :
              /\ Cardinality(CallsTo(lastPoll.sensor, m)) = 1
              /\ \A i \in CallsTo(lastPoll.sensor, m) :
                    calls[i].value = float(Stats(LastSnapshot)[m]).value
        /\ \A i \in 1..Len(calls) :
              /\ calls[i].sensor = lastPoll.sensor
              /\ calls[i].modality \in LastExpected
              /\ i \in CallsTo(lastPoll.sensor, calls[i].modality)

(***************************************************************************)
(* C4  Poll isolation: whatever the failure of a sensor's poll request,    *)
(* the pump loop goes on to the next sensor.                               *)
(***************************************************************************)
C4_PollIsolation ==
    lastPoll.result \notin {"ok", "none"} => (pc = "poll" /\ error = "none")

(***************************************************************************)
(* C5  Reconnect: while the process runs, no handler's background thread   *)
(* has stopped.                                                            *)
(***************************************************************************)
C5_HandlerNeverStops ==
    Alive => \A h \in DOMAIN handlers : handlers[h].state # "dead"

(***************************************************************************)
(* C6  report never raises an error to the pump loop.                      *)
(***************************************************************************)
C6_ReportNeverRaises == error # "AttributeError"

(***************************************************************************)
(* C7  Provisioning count: after a complete provisioning run every         *)
(* non-excluded sensor with N declared modalities has N devices and N      *)
(* entries in the persisted mapping, one per modality; a type that         *)
(* declares none (no jsonKeys, null, or an empty list) counts as N = 1,    *)
(* under the sentinel key.                                                 *)
(***************************************************************************)
Declared(sensorType) ==
    LET jsonKeys == catalog[sensorType]
    IN IF jsonKeys.kind = "list" /\ jsonKeys.keys # <<>>
       THEN {jsonKeys.keys[i] : i \in 1..Len(jsonKeys.keys)}
       ELSE {"null"}

DevicesOf(zensie_sensor) ==
    {i \in 1..Len(oltDevices) : oltDevices[i].name[2] = zensie_sensor}

C7_ProvisioningCount ==
    pc = "done" =>
        \A i \in 1..Len(Inventory) :
            NotBanned(Inventory[i]) =>
                LET s == Inventory[i].checkId
                    N == Cardinality(Declared(Inventory[i].sensorType))
                IN /\ Cardinality(DevicesOf(s)) = N
                   /\ s \in DOMAIN mappingFile.doc
                   /\ DOMAIN mappingFile.doc[s] = Declared(Inventory[i].sensorType)

(***************************************************************************)
(* C8  Exclusion: a sensor whose type is in the exclusion set never gets a *)
(* device, nor a key in the mapping being built or in the persisted one.   *)
(***************************************************************************)
C8_Exclusion ==
    \A i \in 1..Len(Inventory) :
        Inventory[i].sensorType \in banned =>
            /\ DevicesOf(Inventory[i].checkId) = {}
            /\ Inventory[i].checkId \notin DOMAIN mappings
            /\ Inventory[i].checkId \notin DOMAIN mappingFile.doc

\* a provisioning run went through and persisted the other sensors
C8_Witness ==
    /\ pc = "done"
    /\ fileAtStart = FileEmpty
    /\ \E i \in 1..Len(Inventory) : Inventory[i].sensorType \in banned
    /\ DOMAIN mappingFile.doc = {"s1", "s2"}
    /\ Len(oltDevices) = 3

(***************************************************************************)
(* C9  Provisioning abort: the step in which an API call of prepare fails  *)
(* ends the run; the mapping file is what it was when the run started; the *)
(* devices created before are all still there, and so is the device whose  *)
(* certificate could not be attached.  Nothing happens after the failure.  *)
(***************************************************************************)
C9_ProvisioningAbort ==
    /\ [][ (failedCall = "none" /\ failedCall' \notin {"none", "stats"}) =>
              /\ pc' = "crashed"
              /\ mappingFile' = fileAtStart
              /\ IF failedCall' = "certificates"
                 THEN /\ Len(oltDevices') = Len(oltDevices) + 1
                      /\ SubSeq(oltDevices', 1, Len(oltDevices)) = oltDevices
                 ELSE oltDevices' = oltDevices ]_vars
    /\ [][ pc # "crashed" ]_vars
    /\ [](failedCall \notin {"none", "stats"} =>
             pc = "crashed" /\ mappingFile = fileAtStart)

\* the certificate of the second device was refused: two devices, no mapping
C9_Witness ==
    /\ pc = "crashed"
    /\ failedCall = "certificates"
    /\ Len(oltDevices) = 2
    /\ oltDevices[2].cert = NoCert
    /\ mappingFile = FileEmpty

(***************************************************************************)
(* C10  Configuration fail-fast: with a credential missing, prepare sends  *)
(* no request and creates no device; without the API key, pump starts no   *)
(* handler and polls nothing.  Either way the run ends by the exception.   *)
(***************************************************************************)
C10_FailFast ==
    /\ (ProvisioningMode /\ \E n \in EnvNames : ~env[n]) =>
          /\ ~apiCalled
          /\ oltDevices = <<>>
          /\ pc \in {"prepare", "crashed"}
          /\ pc = "crashed" => error = "Exception"
    /\ (PumpMode /\ ~env["ZENSIE_API_KEY"]) =>
          /\ ~apiCalled
          /\ handlers = EmptyDict
          /\ pc \in {"pump", "crashed"}
          /\ pc = "crashed" => error = "Exception"

\* pump mode without the API key: the run is over and nothing was started
C10_Witness ==
    /\ PumpMode
    /\ ~env["ZENSIE_API_KEY"]
    /\ pc = "crashed" /\ error = "Exception"
    /\ handlers = EmptyDict /\ ~apiCalled

(***************************************************************************)
(* C11  Mode selection: whichever the state of /mapping.json at startup,   *)
(* main selects a mode and startup does not fail: without a mapping the    *)
(* run is a provisioning run (and never pumps), with a mapping it is a     *)
(* pump run (and never provisions).                                        *)
(***************************************************************************)
PreparePcs == {"prepare", "create_device_type", "list_sensors",
               "list_sensor_types", "sensor", "device", "store", "done"}
PumpPcs == {"pump", "handlers", "poll", "report"}

\* main ended by the exception of load_pump_mappings
StartupFailed ==
    /\ pc = "crashed"
    /\ load_pump_mappings(fileAtStart).raised # "none"
    /\ error = load_pump_mappings(fileAtStart).raised

C11_ModeSelection ==
    pc # "main" =>
        /\ ~StartupFailed
        /\ fileAtStart.state # "json" =>
              /\ pc \in PreparePcs \cup {"crashed"}
              /\ handlers = EmptyDict /\ lastPoll = NoPoll
              /\ deviceTypes <= 1
              /\ pc = "done" => mappingFile = store_pump_mappings(mappings)
        /\ fileAtStart.state = "json" =>
              /\ pc \in PumpPcs \cup {"crashed"}
              /\ oltDevices = ProvisionedDevices /\ deviceTypes = 1
              /\ mappingFile = fileAtStart

(***************************************************************************)
(* C12  Data-error containment: a mapped value that is no number does not  *)
(* end the pump loop; the loop goes on with the next sensor.               *)
(***************************************************************************)
C12_DataErrorContained ==
    (lastPoll.result = "ok" /\ ~LastCoercible) =>
        ~(pc = "crashed" /\ error = "ValueError")

(***************************************************************************)
(* C13  Crypto failure: a pass of the inner loop of prepare in which an    *)
(* openssl run failed (no new key or no new certificate came out) creates  *)
(* no device and records no entry; so the entries recorded by a            *)
(* provisioning run never share a certificate or a key.                    *)
(***************************************************************************)
Pairs(m) == UNION {{<<s, k>> : k \in DOMAIN m[s]} : s \in DOMAIN m}

CryptoFailed ==
    /\ pc = "device" /\ modalities # <<>>
    /\ keysIssued' = keysIssued \/ certsIssued' = certsIssued

FreshIdentities ==
    \A p, q \in Pairs(mappings) :
        p # q => /\ mappings[p[1]][p[2]].certificate # mappings[q[1]][q[2]].certificate
                 /\ mappings[p[1]][p[2]].key # mappings[q[1]][q[2]].key

C13_CryptoFailure ==
    /\ [][CryptoFailed => (oltDevices' = oltDevices /\ mappings' = mappings)]_vars
    /\ [](ProvisioningMode => FreshIdentities)

(***************************************************************************)
(* C14  Sentinel-key round trip: the mapping a provisioning run stored     *)
(* loads back with the sensor keys and modality keys it was built with,    *)
(* the key None of a single-modality sensor included; so a changed poll    *)
(* of such a sensor whose lastRecordedStats is one number makes exactly    *)
(* one report.                                                             *)
(***************************************************************************)
SameKeys(m, n) ==
    /\ DOMAIN m = DOMAIN n
    /\ \A s \in DOMAIN m : DOMAIN m[s] = DOMAIN n[s]

RoundTrip ==
    (ProvisioningMode /\ pc = "done") =>
        /\ load_pump_mappings(mappingFile).raised = "none"
        /\ SameKeys(load_pump_mappings(mappingFile).value, mappings)

SingleModality(zensie_sensor) ==
    \E i \in 1..Len(Inventory) :
        /\ Inventory[i].checkId = zensie_sensor
        /\ catalog[Inventory[i].sensorType].kind = "null"

ScalarReported ==
    (PumpMode /\ ProcessingOver /\ SingleModality(lastPoll.sensor)
        /\ ~lastPoll.stats.isDict /\ lastPoll.stats.scalar.type = "number") =>
        Len(calls) = 1

C14_SentinelRoundTrip == RoundTrip /\ ScalarReported

(***************************************************************************)
(* C15  Last-seen table: between two polls the table holds, for every      *)
(* sensor, the timestamp of that sensor's most recent successful poll, and *)
(* no entry for a sensor no poll of which succeeded.  A step of the pump   *)
(* loop changes at most the entry of the sensor being polled; a failed     *)
(* poll changes nothing; the end of a changed poll sets the entry to the   *)
(* polled timestamp whatever was reported.                                 *)
(***************************************************************************)
LastSeenIsLastPolled ==
    (PumpMode /\ pc = "poll") => timestamps = prevTs

LastSeenFrame ==
    (PumpMode /\ pc \in {"poll", "report"} /\ cur <= Len(Keys(mappings))) =>
        LET zensie_sensor == Keys(mappings)[cur]
        IN /\ \A s \in DOMAIN mappings \ {zensie_sensor} :
                 /\ s \in DOMAIN timestamps' <=> s \in DOMAIN timestamps
                 /\ s \in DOMAIN timestamps => timestamps'[s] = timestamps[s]
           /\ lastPoll'.result # "ok" => timestamps' = timestamps
           /\ (pc = "report" /\ pc' = "poll") =>
                 /\ zensie_sensor \in DOMAIN timestamps'
                 /\ timestamps'[zensie_sensor] = lastPoll.timestamp

C15_LastSeenTable ==
    /\ [](LastSeenIsLastPolled)
    /\ [][LastSeenFrame]_vars

(***************************************************************************)
(* C16  Handler set: when the first sensor is polled, every mapping entry  *)
(* has its Handler, each with the identity of its own entry; from then on  *)
(* no Handler is created, replaced or removed, and every report for a      *)
(* pair is made on the Handler of that pair's entry.                       *)
(***************************************************************************)
Polling == PumpMode /\ (pc \in {"poll", "report"} \/ lastPoll # NoPoll)

HandlerPerEntry ==
    /\ DOMAIN handlers = Pairs(mappings)
    /\ \A p \in DOMAIN handlers : handlers[p].identifier = mappings[p[1]][p[2]].id
    /\ \A p, q \in DOMAIN handlers :
          p # q => handlers[p].identifier # handlers[q].identifier

ReportsOnOwnHandler ==
    \A i \in 1..Len(calls) :
        /\ <<calls[i].sensor, calls[i].modality>> \in DOMAIN handlers
        /\ calls[i].handler = mappings[calls[i].sensor][calls[i].modality].id
        /\ i \in CallsTo(calls[i].sensor, calls[i].modality)

HandlersKept ==
    Polling =>
        /\ DOMAIN handlers' = DOMAIN handlers
        /\ \A p \in DOMAIN handlers : handlers'[p].identifier = handlers[p].identifier

C16_HandlerSet ==
    /\ [](Polling => (HandlerPerEntry /\ ReportsOnOwnHandler))
    /\ [][HandlersKept]_vars

\* both modalities of one snapshot were reported, each on its own Handler
C16_Witness ==
    /\ Polling /\ pc = "report"
    /\ Cardinality(DOMAIN handlers) = 3
    /\ Len(calls) = 2
    /\ calls[1].handler # calls[2].handler

(***************************************************************************)
(* C17  Mapping store frame: in a pump run /mapping.json stays the file    *)
(* found at startup, and the mapping in memory keeps the sensor keys, the  *)
(* modality keys and the id, certificate and key of every entry it was     *)
(* loaded with; the Handler is all that is attached to an entry.           *)
(***************************************************************************)
C17_MappingFrame ==
    PumpMode =>
        /\ mappingFile = fileAtStart
        /\ mappings = load_pump_mappings(fileAtStart).value
        /\ DOMAIN handlers \subseteq Pairs(mappings)

\* a cycle over all sensors is done: handlers attached, timestamps recorded
C17_Witness ==
    /\ PumpMode /\ pc = "poll"
    /\ DOMAIN handlers = Pairs(mappings)
    /\ DOMAIN timestamps = DOMAIN mappings
    /\ cur > Len(Keys(mappings))

(***************************************************************************)
(* C18  Identity consistency: in the mapping a provisioning run has        *)
(* stored, the id of every entry is the id of the device created for its   *)
(* (sensor, modality) pair, its certificate is the one attached to that    *)
(* device, its key is the key that certificate was made for, and no two    *)
(* entries have the same id.                                               *)
(***************************************************************************)
SensorOf(zensie_sensor) ==
    CHOOSE sensor \in {Inventory[i] : i \in 1..Len(Inventory)} :
        sensor.checkId = zensie_sensor

IdentityConsistent(p) ==
    LET entry == mappings[p[1]][p[2]]
        stored == mappingFile.doc[p[1]][JsonKey(p[2])]
    IN /\ stored = entry
       /\ entry.id \in 1..Len(oltDevices)
       /\ oltDevices[entry.id].name = DeviceName(SensorOf(p[1]), p[2])
       /\ oltDevices[entry.id].cert = entry.certificate
       /\ entry.certificate.forKey = entry.key

C18_IdentityConsistency ==
    (ProvisioningMode /\ pc = "done") =>
        /\ \A p \in Pairs(mappings) : IdentityConsistent(p)
        /\ \A p, q \in Pairs(mappings) :
              p # q => mappings[p[1]][p[2]].id # mappings[q[1]][q[2]].id

====
